---------------------------- MODULE Spec2Model ----------------------------
(***************************************************************************)
(* Model of src/main.rs of mandelbrot_rust: the escape-time evaluator, the *)
(* pixel-to-point mapping, the sequential renderer and the two threaded    *)
(* schedulers (bands, task_queue).                                         *)
(*                                                                         *)
(* Numbers.  The program computes in f64.  The model computes in binary    *)
(* floating point with round-to-nearest-even after every operation, with   *)
(* NaN and the two infinities, exactly as IEEE 754 does, but with a        *)
(* significand of MantBits bits instead of 53 and an unbounded exponent    *)
(* (the values the program meets stay far from the f64 exponent limits).   *)
(* Every arithmetic operation of the source is one rounded operation of    *)
(* the model, in the source's order of evaluation.                         *)
(***************************************************************************)
EXTENDS Integers, Sequences, FiniteSets, Bags, TLC

(***************************************************************************)
(* Bounds of the model.                                                    *)
(***************************************************************************)
MantBits == 8
MaxWidth == 2
MaxHeight == 3
MaxThreads == 3
MaxSkew == 1
MaxLimit == 6
MaxCoord == 12

(***************************************************************************)
(* Program constants.                                                      *)
(***************************************************************************)
Limit == 255
MaxByte == 255
ByteMod == 256

(***************************************************************************)
(* Floating point.  A value is <<class, m, e>>: class 0 is the finite      *)
(* number m * 2^e, with m = 0 and e = 0 for zero and                       *)
(* 2^(MantBits-1) <= |m| < 2^MantBits otherwise; class 1 is an infinity    *)
(* with the sign of m; class 2 is NaN.                                     *)
(***************************************************************************)
Pow2(k) == 2 ^ k

Fin(m, e) == <<0, m, e>>
Zero == <<0, 0, 0>>
PosInf == <<1, 1, 0>>
NegInf == <<1, -1, 0>>
NaN == <<2, 0, 0>>

IsFin(x) == x[1] = 0
IsInf(x) == x[1] = 1
IsNaN(x) == x[1] = 2
Sign(x) == IF x[2] > 0 THEN 1 ELSE IF x[2] < 0 THEN -1 ELSE 0
Abs(n) == IF n < 0 THEN -n ELSE n

\* The number of bits of a, for 0 <= a < 2^8 and for 0 <= a < 2^31.
BitLen8(a) ==
    IF a < 16
    THEN (IF a < 4 THEN (IF a < 2 THEN a ELSE 2) ELSE (IF a < 8 THEN 3 ELSE 4))
    ELSE (IF a < 64 THEN (IF a < 32 THEN 5 ELSE 6) ELSE (IF a < 128 THEN 7 ELSE 8))

BitLen(a) ==
    IF a < 65536
    THEN (IF a < 256 THEN BitLen8(a) ELSE 8 + BitLen8(a \div 256))
    ELSE (IF a < 16777216 THEN 16 + BitLen8(a \div 65536)
          ELSE 24 + BitLen8(a \div 16777216))

\* The finite number s * a * 2^e (a >= 0), rounded to MantBits bits, ties to even.
RoundTo(s, a, e) ==
    IF a = 0 THEN Zero
    ELSE LET len == BitLen(a) IN
         IF len <= MantBits
         THEN Fin(s * a * Pow2(MantBits - len), e - (MantBits - len))
         ELSE LET sh == len - MantBits
                  q == a \div Pow2(sh)
                  r == a % Pow2(sh)
                  half == Pow2(sh - 1)
                  up == r > half \/ (r = half /\ q % 2 = 1)
                  q1 == IF up THEN q + 1 ELSE q
              IN IF q1 = Pow2(MantBits)
                 THEN Fin(s * Pow2(MantBits - 1), e + sh + 1)
                 ELSE Fin(s * q1, e + sh)

\* usize as f64
FromInt(n) == RoundTo(1, n, 0)

FNeg(x) == <<x[1], -x[2], x[3]>>

\* x > 4.0 for a value x
GreaterThan4V(x) ==
    IF IsNaN(x) THEN FALSE
    ELSE IF IsInf(x) THEN x[2] > 0
    ELSE /\ x[2] > 0
         /\ \/ x[3] + MantBits > 3
            \/ x[3] + MantBits = 3 /\ x[2] > Pow2(MantBits - 1)

\* The sum of two finite numbers; x has the larger exponent.
AddOrdered(x, y) ==
    LET d == x[3] - y[3] IN
    IF d >= MantBits + 2 THEN x
    ELSE LET sum == x[2] * Pow2(d) + y[2]
         IN RoundTo(IF sum < 0 THEN -1 ELSE 1, Abs(sum), y[3])

FAddV(x, y) ==
    IF IsNaN(x) \/ IsNaN(y) THEN NaN
    ELSE IF IsInf(x) THEN (IF IsInf(y) /\ y # x THEN NaN ELSE x)
    ELSE IF IsInf(y) THEN y
    ELSE IF x[2] = 0 THEN y
    ELSE IF y[2] = 0 THEN x
    ELSE IF x[3] >= y[3] THEN AddOrdered(x, y) ELSE AddOrdered(y, x)

FSubV(x, y) == FAddV(x, FNeg(y))

FMulV(x, y) ==
    IF IsNaN(x) \/ IsNaN(y) THEN NaN
    ELSE IF IsInf(x) \/ IsInf(y)
         THEN (IF Sign(x) * Sign(y) = 0 THEN NaN
               ELSE IF Sign(x) * Sign(y) > 0 THEN PosInf ELSE NegInf)
    ELSE LET p == x[2] * y[2]
         IN RoundTo(IF p < 0 THEN -1 ELSE 1, Abs(p), x[3] + y[3])

\* The divisors of the program are usize values converted to f64: never negative.
FDivV(x, y) ==
    IF IsNaN(x) \/ IsNaN(y) THEN NaN
    ELSE IF IsInf(x) THEN (IF IsInf(y) THEN NaN
                           ELSE IF Sign(x) * (IF Sign(y) < 0 THEN -1 ELSE 1) > 0
                                THEN PosInf ELSE NegInf)
    ELSE IF IsInf(y) THEN Zero
    ELSE IF y[2] = 0 THEN (IF x[2] = 0 THEN NaN
                           ELSE IF x[2] > 0 THEN PosInf ELSE NegInf)
    ELSE IF x[2] = 0 THEN Zero
    ELSE LET num == Abs(x[2]) * Pow2(MantBits + 2)
             den == Abs(y[2])
             q == num \div den
             sticky == IF num % den = 0 THEN 0 ELSE 1
             s == IF (x[2] < 0) = (y[2] < 0) THEN 1 ELSE -1
         IN RoundTo(s, 2 * q + sticky, x[3] - y[3] - (MantBits + 2) - 1)

\* The four operations of f64.  The operands are evaluated once, before the
\* operation is applied, as the program evaluates them: `CHOOSE r \in {F(v) :
\* v \in {e}} : TRUE` is F(e) with e evaluated once.
FAdd(x, y) == CHOOSE r \in { FAddV(p[1], p[2]) : p \in {<<x, y>>} } : TRUE
FSub(x, y) == CHOOSE r \in { FSubV(p[1], p[2]) : p \in {<<x, y>>} } : TRUE
FMul(x, y) == CHOOSE r \in { FMulV(p[1], p[2]) : p \in {<<x, y>>} } : TRUE
FDiv(x, y) == CHOOSE r \in { FDivV(p[1], p[2]) : p \in {<<x, y>>} } : TRUE

\* The comparison turned round: x < 4.0 (false for NaN).
LessThan4(x) ==
    /\ ~IsNaN(x)
    /\ ~GreaterThan4V(x)
    /\ x # Fin(Pow2(MantBits - 1), 3 - MantBits)

\* x > 4.0 (false for NaN)
GreaterThan4(x) == CHOOSE r \in { GreaterThan4V(v) : v \in {x} } : TRUE

(***************************************************************************)
(* Complex<f64>: <<re, im>>.                                               *)
(***************************************************************************)
Complex(re, im) == <<re, im>>
Re(z) == z[1]
Im(z) == z[2]

\* num::Complex::norm_sqr: re * re + im * im
norm_sqr(z) == FAdd(FMul(Re(z), Re(z)), FMul(Im(z), Im(z)))

\* num::Complex multiplication: (a.re*b.re - a.im*b.im, a.re*b.im + a.im*b.re)
CMul(a, b) ==
    Complex(FSub(FMul(Re(a), Re(b)), FMul(Im(a), Im(b))),
            FAdd(FMul(Re(a), Im(b)), FMul(Im(a), Re(b))))

CAddV(a, b) == Complex(FAdd(Re(a), Re(b)), FAdd(Im(a), Im(b)))

CAdd(a, b) == CHOOSE r \in { CAddV(p[1], p[2]) : p \in {<<a, b>>} } : TRUE

(***************************************************************************)
(* escape_time: None is 0, Some(i) is i (the loop index starts at 1).      *)
(***************************************************************************)
None == 0

\* The body with the step ahead of the test: z = z * z + c, then the return.
EscapeStep_step_first(s, c) ==
    IF GreaterThan4(norm_sqr(CAdd(CMul(s[1], s[1]), c)))
    THEN <<CAdd(CMul(s[1], s[1]), c), s[2], s[2]>>
    ELSE <<CAdd(CMul(s[1], s[1]), c), s[2] + 1, None>>

\* The loop state is <<z, i, r>>: the orbit value, the loop index, and the value
\* returned from inside the loop (None while the loop is still running).
\* One pass of the body of `for i in 1..limit`.
EscapeStep(s, c) ==
    IF GreaterThan4(norm_sqr(s[1])) THEN <<s[1], s[2], s[2]>>
    ELSE <<CAdd(CMul(s[1], s[1]), c), s[2] + 1, None>>

\* n passes of the loop body from state s, stopping at the return.  The passes
\* are split in halves so that the depth of evaluation stays logarithmic in n.
RECURSIVE EscapeLoop(_, _, _)
EscapeLoop(s, c, n) ==
    IF n <= 0 \/ s[3] # None THEN s
    ELSE IF n = 1 THEN EscapeStep(s, c)
    ELSE CHOOSE r \in { EscapeLoop(half, c, n - n \div 2) :
                         half \in {EscapeLoop(s, c, n \div 2)} } : TRUE

\* The limit returned as the count when the loop runs out: Some(limit).
escape_time_capped(c, limit) ==
    CHOOSE r \in
      { IF res = None THEN limit ELSE res :
          res \in {EscapeLoop(<<Complex(Zero, Zero), 1, None>>, c, limit - 1)[3]} } :
      TRUE

\* The loop written `for i in 0..limit`: indices from 0, one pass more.
escape_time_from_zero(c, limit) ==
    CHOOSE r \in { EscapeLoop(<<Complex(Zero, Zero), 0, None>>, cv, limit)[3] :
                     cv \in {c} } : TRUE

\* `1..limit` holds limit - 1 indices; falling out of the loop returns None.
escape_time(c, limit) ==
    CHOOSE r \in { EscapeLoop(<<Complex(Zero, Zero), 1, None>>, cv, limit - 1)[3] :
                     cv \in {c} } : TRUE

(***************************************************************************)
(* pixel_to_point                                                          *)
(***************************************************************************)
\* The imaginary axis not inverted: row offsets added instead of subtracted.
pixel_to_point_not_inverted(bounds, pixel, upper_left, lower_right) ==
    LET width == FSub(Re(lower_right), Re(upper_left))
        height == FSub(Im(upper_left), Im(lower_right))
    IN Complex(
         FAdd(Re(upper_left),
              FDiv(FMul(FromInt(pixel[1]), width), FromInt(bounds[1]))),
         FAdd(Im(upper_left),
              FDiv(FMul(FromInt(pixel[2]), height), FromInt(bounds[2]))))

pixel_to_point(bounds, pixel, upper_left, lower_right) ==
    LET width == FSub(Re(lower_right), Re(upper_left))
        height == FSub(Im(upper_left), Im(lower_right))
    IN Complex(
         FAdd(Re(upper_left),
              FDiv(FMul(FromInt(pixel[1]), width), FromInt(bounds[1]))),
         FSub(Im(upper_left),
              FDiv(FMul(FromInt(pixel[2]), height), FromInt(bounds[2]))))


(***************************************************************************)
(* render.  A slice of the buffer is the offset of its first byte in the   *)
(* whole buffer and its length; indices below are 0-based as in the source *)
(* (the sequence `pixels` is 1-based).                                     *)
(***************************************************************************)
\* assert!(pixels.len() == bounds.0 * bounds.1) fails
render_panics(len, bounds) == len # bounds[1] * bounds[2]

\* The byte stored for the pixel (column, row).
pixel_value(bounds, column, row, upper_left, lower_right) ==
    LET point == pixel_to_point(bounds, <<column, row>>, upper_left, lower_right)
    IN CHOOSE r \in { IF count = None THEN 0 ELSE MaxByte - (count % ByteMod) :
                        count \in {escape_time(point, Limit)} } : TRUE

\* The indices of the whole buffer (1-based) the two loops of render store to,
\* `pixels[row * bounds.0 + column]`, when `pixels` is the slice at off.
render_writes(off, bounds) ==
    { off + row * bounds[1] + column + 1 :
        row \in 0..bounds[2] - 1, column \in 0..bounds[1] - 1 }

\* The buffer indexed column by column: `pixels[column * bounds.1 + row]`.
render_column_major(buf, off, len, bounds, upper_left, lower_right) ==
    [j \in 1..Len(buf) |->
        IF off < j /\ j <= off + len
        THEN pixel_value(bounds, (j - 1 - off) \div bounds[2],
                         (j - 1 - off) % bounds[2], upper_left, lower_right)
        ELSE buf[j]]

\* The buffer after render has run on the slice (off, len) of buf; the slice
\* holds bounds.0 * bounds.1 bytes (the assertion has passed).
render(buf, off, len, bounds, upper_left, lower_right) ==
    [j \in 1..Len(buf) |->
        IF off < j /\ j <= off + len
        THEN pixel_value(bounds, (j - 1 - off) % bounds[1],
                         (j - 1 - off) \div bounds[1], upper_left, lower_right)
        ELSE buf[j]]

(***************************************************************************)
(* The bands of the schedulers: pixels.chunks_mut(row_per_band * bounds.0) *)
(***************************************************************************)
\* The quotient clamped to one row instead of the quotient plus one.
row_per_band_clamped(bounds, threads) ==
    IF bounds[2] \div threads = 0 THEN 1 ELSE bounds[2] \div threads

row_per_band(bounds, threads) == bounds[2] \div threads + 1

chunk_size(bounds, threads) == row_per_band(bounds, threads) * bounds[1]

\* chunks_exact_mut instead of chunks_mut: the chunk that is left is dropped.
num_chunks_exact(len, size) == len \div size

\* The number of chunks chunks_mut(size) yields on a slice of len bytes:
\* consecutive chunks of size bytes, the last one holding what is left.
num_chunks(len, size) == (len + size - 1) \div size

\* Chunks that start one byte early for every chunk before them.
chunk_off_overlapping(i, size) == i * size - i

chunk_off(i, size) == i * size

chunk_len(i, len, size) ==
    IF len - i * size < size THEN len - i * size ELSE size

\* The bands numbered from 1: top = row_per_band * (i + 1)
band_top_from_one(i, bounds, threads) == row_per_band(bounds, threads) * (i + 1)

\* let top = row_per_band * i
band_top(i, bounds, threads) == row_per_band(bounds, threads) * i

\* Every band taken to be row_per_band rows high.
band_height_full(blen, bounds, threads) == row_per_band(bounds, threads)

\* let height = band.len() / bounds.0
band_height(blen, bounds, threads) == blen \div bounds[1]

\* What a worker holds of band i: its slice and the locals computed from it.
band_task(i, len, bounds, threads, upper_left, lower_right) ==
    LET size == chunk_size(bounds, threads)
        blen == chunk_len(i, len, size)
        top == band_top(i, bounds, threads)
        height == band_height(blen, bounds, threads)
    IN [i |-> i,
        off |-> chunk_off(i, size),
        len |-> blen,
        band_bounds |-> <<bounds[1], height>>,
        band_upper_left |->
            pixel_to_point(bounds, <<0, top>>, upper_left, lower_right),
        band_lower_right |->
            pixel_to_point(bounds, <<bounds[1], top + height>>,
                           upper_left, lower_right)]

(***************************************************************************)
(* Inputs.                                                                 *)
(***************************************************************************)
\* The f64 n / 2^k.
Dyadic(n, k) == RoundTo(IF n < 0 THEN -1 ELSE 1, Abs(n), -k)

\* (upper_left, lower_right) pairs: a view of the whole set,
\* -2.5+1.5i .. 0.5-0.75i, and a view to the right of it, 0.375+0.5i ..
\* 1.125+0.375i, where every point escapes within a few iterations.
Viewports ==
    { <<Complex(Dyadic(-5, 1), Dyadic(3, 1)), Complex(Dyadic(1, 1), Dyadic(-3, 2))>>,
      <<Complex(Dyadic(3, 3), Dyadic(1, 1)), Complex(Dyadic(9, 3), Dyadic(3, 3))>> }

\* What the buffer holds before the call.
Fills == {0, 170}

\* The buffer is as long as the bounds ask, or off by up to MaxSkew bytes.
MaxLen == MaxWidth * MaxHeight + MaxSkew

Lengths(b) ==
    { n \in 0..MaxLen : b[1] * b[2] - MaxSkew <= n /\ n <= b[1] * b[2] + MaxSkew }

Buffers(b) == { [j \in 1..n |-> f] : n \in Lengths(b), f \in Fills }

(***************************************************************************)
(* State.  The workers of a scope run the same code and have no name in    *)
(* the source (`for _ in 0..threads`): they are kept as the bag of their   *)
(* local states.  A worker's local state is where it stands (st) and the   *)
(* band it holds (task).                                                   *)
(***************************************************************************)
VARIABLES
    fn,           \* the entry point called: "render", "bands" or "task_queue"
    bounds,       \* <<width, height>>
    upper_left,
    lower_right,
    threads,
    pixels,       \* the caller's buffer
    pc,           \* the calling thread: "start", "scope", "returned", "panicked"
    panic,        \* the panic message of the calling thread ("" if none)
    cursor,       \* chunks the band iterator has yielded so far
    lock,         \* TRUE while a worker holds the guard of the Mutex
    workers,      \* the bag of the local states of the spawned workers
    handed,       \* band index -> times the band was handed to a worker
    rendered,     \* band index -> times render completed on the band
    pixel,        \* the pixel argument of a call of pixel_to_point alone
    point,        \* what that call returned
    c,            \* the point argument of a call of escape_time alone
    limit,        \* the limit argument of that call
    count         \* what that call returned

vars == <<fn, bounds, upper_left, lower_right, threads, pixels, pc, panic,
          cursor, lock, workers, handed, rendered, pixel, point, c, limit,
          count>>

inputs == <<fn, bounds, upper_left, lower_right, threads, pixel, point, c,
            limit, count>>

NoTask ==
    [i |-> -1, off |-> 0, len |-> 0, band_bounds |-> <<0, 0>>,
     band_upper_left |-> Complex(Zero, Zero),
     band_lower_right |-> Complex(Zero, Zero)]

Worker(st, task) == [st |-> st, task |-> task]

One(w) == SetToBag({w})

\* The bag after one worker has moved from local state w to local state w2.
Moved(w, w2) == (workers (-) One(w)) (+) One(w2)

Spawned == BagCardinality(workers)

Init ==
    /\ fn \in {"render", "bands", "task_queue"}
    /\ bounds \in (0..MaxWidth) \X (0..MaxHeight)
    /\ threads \in (IF fn = "render" THEN {1} ELSE 0..MaxThreads)
    /\ \E v \in Viewports : upper_left = v[1] /\ lower_right = v[2]
    /\ pixels \in Buffers(bounds)
    /\ pc = "start"
    /\ panic = ""
    /\ cursor = 0
    /\ lock = FALSE
    /\ workers = EmptyBag
    /\ handed = [i \in 0..MaxLen - 1 |-> 0]
    /\ rendered = [i \in 0..MaxLen - 1 |-> 0]
    /\ pixel = <<0, 0>>
    /\ point = Complex(Zero, Zero)
    /\ c = Complex(Zero, Zero)
    /\ limit = 0
    /\ count = None

NumBands == num_chunks(Len(pixels), chunk_size(bounds, threads))

Task(i) == band_task(i, Len(pixels), bounds, threads, upper_left, lower_right)

(***************************************************************************)
(* render called by the caller itself.                                     *)
(***************************************************************************)
render_call ==
    /\ fn = "render"
    /\ pc = "start"
    /\ IF render_panics(Len(pixels), bounds)
       THEN /\ pc' = "panicked"
            /\ panic' = "assertion failed: pixels.len() == bounds.0 * bounds.1"
            /\ UNCHANGED pixels
       ELSE /\ pixels' = render(pixels, 0, Len(pixels), bounds,
                                upper_left, lower_right)
            /\ pc' = "returned"
            /\ UNCHANGED panic
    /\ UNCHANGED <<inputs, cursor, lock, workers, handed, rendered>>

(***************************************************************************)
(* The head of bands and of task_queue: row_per_band and chunks_mut.       *)
(***************************************************************************)
scheduler_start ==
    /\ fn \in {"bands", "task_queue"}
    /\ pc = "start"
    /\ IF threads = 0
       THEN pc' = "panicked" /\ panic' = "attempt to divide by zero"
       ELSE IF chunk_size(bounds, threads) = 0
       THEN pc' = "panicked" /\ panic' = "chunk size must be non-zero"
       ELSE pc' = "scope" /\ UNCHANGED panic
    /\ UNCHANGED <<inputs, pixels, cursor, lock, workers, handed, rendered>>

(***************************************************************************)
(* bands: the loop of the scope's closure spawns one worker per band.      *)
(***************************************************************************)
bands_spawn ==
    /\ fn = "bands"
    /\ pc = "scope"
    /\ cursor < NumBands
    /\ workers' = workers (+) One(Worker("render", Task(cursor)))
    /\ handed' = [handed EXCEPT ![cursor] = @ + 1]
    /\ cursor' = cursor + 1
    /\ UNCHANGED <<inputs, pixels, pc, panic, lock, rendered>>

(***************************************************************************)
(* task_queue: the loop of the scope's closure spawns `threads` workers.   *)
(***************************************************************************)
task_queue_spawn ==
    /\ fn = "task_queue"
    /\ pc = "scope"
    /\ Spawned < threads
    /\ workers' = workers (+) One(Worker("ready", NoTask))
    /\ UNCHANGED <<inputs, pixels, pc, panic, cursor, lock, handed, rendered>>

\* The cursor taken without mutual exclusion: no wait for the guard.
worker_lock_unguarded(w) ==
    /\ w.st = "ready"
    /\ lock' = TRUE
    /\ workers' = Moved(w, Worker("locked", w.task))
    /\ UNCHANGED <<inputs, pixels, pc, panic, cursor, handed, rendered>>

\* bands.lock().unwrap(): no worker panics while it holds the guard, so the
\* Mutex is never poisoned and unwrap never fails.
worker_lock(w) ==
    /\ w.st = "ready"
    /\ ~lock
    /\ lock' = TRUE
    /\ workers' = Moved(w, Worker("locked", w.task))
    /\ UNCHANGED <<inputs, pixels, pc, panic, cursor, handed, rendered>>

\* The band read without advancing the iterator.
worker_next_peek(w) ==
    /\ w.st = "locked"
    /\ lock' = FALSE
    /\ IF cursor < NumBands
       THEN /\ workers' = Moved(w, Worker("render", Task(cursor)))
            /\ handed' = [handed EXCEPT ![cursor] = @ + 1]
            /\ UNCHANGED cursor
       ELSE /\ workers' = Moved(w, Worker("done", w.task))
            /\ UNCHANGED <<cursor, handed>>
    /\ UNCHANGED <<inputs, pixels, pc, panic, rendered>>

\* The guard kept across the rendering and never dropped.
worker_next_guard_kept(w) ==
    /\ w.st = "locked"
    /\ UNCHANGED lock
    /\ IF cursor < NumBands
       THEN /\ workers' = Moved(w, Worker("render", Task(cursor)))
            /\ handed' = [handed EXCEPT ![cursor] = @ + 1]
            /\ cursor' = cursor + 1
       ELSE /\ workers' = Moved(w, Worker("done", w.task))
            /\ UNCHANGED <<cursor, handed>>
    /\ UNCHANGED <<inputs, pixels, pc, panic, rendered>>

\* guard.next(), the guard dropped at the end of the block, and the locals of
\* the Some arm.
worker_next(w) ==
    /\ w.st = "locked"
    /\ lock' = FALSE
    /\ IF cursor < NumBands
       THEN /\ workers' = Moved(w, Worker("render", Task(cursor)))
            /\ handed' = [handed EXCEPT ![cursor] = @ + 1]
            /\ cursor' = cursor + 1
       ELSE /\ workers' = Moved(w, Worker("done", w.task))
            /\ UNCHANGED <<cursor, handed>>
    /\ UNCHANGED <<inputs, pixels, pc, panic, rendered>>

(***************************************************************************)
(* A worker's call of render on its band.                                  *)
(***************************************************************************)
worker_render(w) ==
    LET t == w.task IN
    /\ w.st = "render"
    /\ IF render_panics(t.len, t.band_bounds)
       THEN /\ workers' = Moved(w, Worker("panicked", t))
            /\ UNCHANGED <<pixels, rendered>>
       ELSE /\ pixels' = render(pixels, t.off, t.len, t.band_bounds,
                                t.band_upper_left, t.band_lower_right)
            /\ rendered' = [rendered EXCEPT ![t.i] = @ + 1]
            /\ workers' = Moved(w, IF fn = "bands" THEN Worker("done", t)
                                   ELSE Worker("ready", NoTask))
    /\ UNCHANGED <<inputs, pc, panic, cursor, lock, handed>>

(***************************************************************************)
(* The end of crossbeam::scope and the unwrap of its result: the scope     *)
(* joins every thread spawned in it, and is an Err if one of them          *)
(* panicked.                                                               *)
(***************************************************************************)
AllSpawned ==
    IF fn = "bands" THEN cursor = NumBands ELSE Spawned = threads

Finished(w) == w.st \in {"done", "panicked"}

AllJoined == \A w \in BagToSet(workers) : Finished(w)

\* Threads spawned and not joined: the call returns when the loop has ended.
scope_join_detached ==
    /\ pc = "scope"
    /\ AllSpawned
    /\ IF \E w \in BagToSet(workers) : w.st = "panicked"
       THEN /\ pc' = "panicked"
            /\ panic' = "called Result::unwrap() on an Err value"
       ELSE /\ pc' = "returned"
            /\ UNCHANGED panic
    /\ UNCHANGED <<inputs, pixels, cursor, lock, workers, handed, rendered>>

\* The result of the scope dropped instead of unwrapped.
scope_join_result_dropped ==
    /\ pc = "scope"
    /\ AllSpawned
    /\ AllJoined
    /\ pc' = "returned"
    /\ UNCHANGED <<inputs, pixels, panic, cursor, lock, workers, handed, rendered>>

scope_join ==
    /\ pc = "scope"
    /\ AllSpawned
    /\ AllJoined
    /\ IF \E w \in BagToSet(workers) : w.st = "panicked"
       THEN /\ pc' = "panicked"
            /\ panic' = "called Result::unwrap() on an Err value"
       ELSE /\ pc' = "returned"
            /\ UNCHANGED panic
    /\ UNCHANGED <<inputs, pixels, cursor, lock, workers, handed, rendered>>

Next ==
    \/ render_call
    \/ scheduler_start
    \/ bands_spawn
    \/ task_queue_spawn
    \/ \E w \in BagToSet(workers) : worker_lock(w)
    \/ \E w \in BagToSet(workers) : worker_next(w)
    \/ \E w \in BagToSet(workers) : worker_render(w)
    \/ scope_join

Spec == Init /\ [][Next]_vars

\* Every thread that can take a step is scheduled in the end.
FairSpec == Spec /\ WF_vars(Next)

(***************************************************************************)
(* pixel_to_point called alone, as test_pixel_to_point calls it.           *)
(***************************************************************************)
\* Corners with coordinates n/4, -8 <= n <= 8.
PointViewports ==
    { <<Complex(Dyadic(p, 2), Dyadic(q, 2)), Complex(Dyadic(r, 2), Dyadic(t, 2))>> :
        p \in {-8, -1}, q \in {4, 2}, r \in {4, 2}, t \in {-4, 0} }

\* Small bounds with every pixel up to the far corner, and the case of
\* test_pixel_to_point.
PointInputs ==
    { <<b, px, v[1], v[2]>> :
        b \in (1..MaxWidth + 1) \X (1..MaxHeight + 1),
        px \in (0..MaxWidth + 1) \X (0..MaxHeight + 1),
        v \in PointViewports }
    \cup { <<(<<100, 200>>), (<<25, 175>>),
            Complex(Dyadic(-1, 0), Dyadic(1, 0)),
            Complex(Dyadic(1, 0), Dyadic(-1, 0))>> }

PointInit ==
    /\ fn = "pixel_to_point"
    /\ \E a \in PointInputs :
          /\ a[2][1] <= a[1][1]
          /\ a[2][2] <= a[1][2]
          /\ bounds = a[1]
          /\ pixel = a[2]
          /\ upper_left = a[3]
          /\ lower_right = a[4]
    /\ threads = 1
    /\ pixels = <<>>
    /\ pc = "start"
    /\ panic = ""
    /\ cursor = 0
    /\ lock = FALSE
    /\ workers = EmptyBag
    /\ handed = [i \in 0..MaxLen - 1 |-> 0]
    /\ rendered = [i \in 0..MaxLen - 1 |-> 0]
    /\ point = Complex(Zero, Zero)
    /\ c = Complex(Zero, Zero)
    /\ limit = 0
    /\ count = None

pixel_to_point_call ==
    /\ fn = "pixel_to_point"
    /\ pc = "start"
    /\ point' = pixel_to_point(bounds, pixel, upper_left, lower_right)
    /\ pc' = "returned"
    /\ UNCHANGED <<fn, bounds, upper_left, lower_right, threads, pixel, pixels,
                   panic, cursor, lock, workers, handed, rendered, c, limit,
                   count>>

PointNext == pixel_to_point_call

PointSpec == PointInit /\ [][PointNext]_vars

(***************************************************************************)
(* escape_time called alone.                                               *)
(***************************************************************************)
\* Points with coordinates n/4: re from -MaxCoord/4 to MaxCoord/4, im from -1/2
\* to 1/2; and the two points of the real axis next to 2 and to -2 on the
\* outside, 2 + 1/64 and -(2 + 1/64).
EscapePoints ==
    { Complex(Dyadic(a, 2), Dyadic(b, 2)) : a \in -MaxCoord..MaxCoord, b \in -2..2 }
    \cup { Complex(Dyadic(129, 6), Zero), Complex(Dyadic(-129, 6), Zero) }

\* The limits 0..MaxLimit and the limit render passes.
EscapeLimits == 0..MaxLimit \cup {Limit}

EscapeInit ==
    /\ fn = "escape_time"
    /\ c \in EscapePoints
    /\ limit \in EscapeLimits
    /\ count = None
    /\ bounds = <<0, 0>>
    /\ upper_left = Complex(Zero, Zero)
    /\ lower_right = Complex(Zero, Zero)
    /\ threads = 1
    /\ pixels = <<>>
    /\ pc = "start"
    /\ panic = ""
    /\ cursor = 0
    /\ lock = FALSE
    /\ workers = EmptyBag
    /\ handed = [i \in 0..MaxLen - 1 |-> 0]
    /\ rendered = [i \in 0..MaxLen - 1 |-> 0]
    /\ pixel = <<0, 0>>
    /\ point = Complex(Zero, Zero)

escape_time_call ==
    /\ fn = "escape_time"
    /\ pc = "start"
    /\ count' = escape_time(c, limit)
    /\ pc' = "returned"
    /\ UNCHANGED <<fn, bounds, upper_left, lower_right, threads, pixel, point,
                   pixels, panic, cursor, lock, workers, handed, rendered, c,
                   limit>>

EscapeNext == escape_time_call

EscapeSpec == EscapeInit /\ [][EscapeNext]_vars

(***************************************************************************)
(* The claims.                                                             *)
(***************************************************************************)
Schedulers == {"bands", "task_queue"}

\* Positive bounds, a positive thread count, a buffer of width * height bytes.
ValidInput ==
    /\ bounds[1] >= 1
    /\ bounds[2] >= 1
    /\ threads >= 1
    /\ Len(pixels) = bounds[1] * bounds[2]

Panicked(w) == w.st = "panicked"

\* x <= y for finite x and y: the sign of a rounded difference is exact.
FLeq(x, y) == Sign(FSub(x, y)) <= 0

\* C1: for every valid input, a call of render, bands or task_queue that has
\* returned leaves in the buffer exactly the bytes the sequential render
\* writes for the same bounds and corners, whatever the buffer held before.
C1_ByteIdentical ==
    (pc = "returned" /\ ValidInput /\ fn \in Schedulers \cup {"render"})
        => pixels = render(pixels, 0, Len(pixels), bounds, upper_left, lower_right)

\* The rows 0..height-1 that lie in the slice of band i.
BandRows(i) ==
    { r \in 0..bounds[2] - 1 :
        /\ Task(i).off <= r * bounds[1]
        /\ (r + 1) * bounds[1] <= Task(i).off + Task(i).len }

\* C2: for a valid input the bands of the schedulers partition the rows: every
\* row lies in the slice of exactly one band, every band is a non-empty run of
\* whole rows, and these are the rows top .. top + height - 1 the scheduler
\* computes for it.
C2_Partition ==
    (fn \in Schedulers /\ ValidInput) =>
        /\ \A r \in 0..bounds[2] - 1 :
              Cardinality({ i \in 0..NumBands - 1 : r \in BandRows(i) }) = 1
        /\ \A i \in 0..NumBands - 1 :
              /\ Task(i).len > 0
              /\ Task(i).len % bounds[1] = 0
              /\ BandRows(i) =
                   band_top(i, bounds, threads)
                     .. band_top(i, bounds, threads) + Task(i).band_bounds[2] - 1

\* A returned call with more threads than rows, the height not divisible by
\* the thread count, and two bands.
C2_Witness ==
    /\ fn \in Schedulers
    /\ ValidInput
    /\ pc = "returned"
    /\ threads > bounds[2]
    /\ bounds[2] % threads # 0
    /\ NumBands = 2

\* C3: in task_queue no band is ever handed to two workers or rendered twice,
\* and when the call has returned every band has been rendered exactly once.
C3_ExactlyOnce ==
    fn = "task_queue" =>
        /\ \A i \in DOMAIN handed : handed[i] <= 1 /\ rendered[i] <= handed[i]
        /\ pc = "returned" =>
              \A i \in DOMAIN rendered :
                  rendered[i] = (IF i < NumBands THEN 1 ELSE 0)

\* task_queue has returned after several workers shared several bands.
C3_Witness ==
    /\ fn = "task_queue"
    /\ pc = "returned"
    /\ threads >= 2
    /\ NumBands >= 2
    /\ \A i \in 0..NumBands - 1 : rendered[i] = 1

\* C4: under fair scheduling a task_queue call on a buffer of width * height
\* bytes that has entered its scope ends by returning, with every one of its
\* `threads` workers exited through the exhausted cursor and every band
\* rendered once.
C4_Terminates ==
    (fn = "task_queue" /\ pc = "scope" /\ Len(pixels) = bounds[1] * bounds[2])
        ~> (/\ pc = "returned"
            /\ Spawned = threads
            /\ \A w \in BagToSet(workers) : w.st = "done"
            /\ \A i \in 0..NumBands - 1 : rendered[i] = 1)

\* A worker has found the cursor exhausted while another is still rendering.
C4_Witness ==
    /\ fn = "task_queue"
    /\ ValidInput
    /\ pc = "scope"
    /\ \E w \in BagToSet(workers) : w.st = "done"
    /\ \E w \in BagToSet(workers) : w.st = "render"

\* C5: when a scheduler call has ended, by returning or by panicking, every
\* worker it spawned has finished and none holds the guard.
C5_JoinedBeforeReturn ==
    (fn \in Schedulers /\ pc \in {"returned", "panicked"})
        => (AllJoined /\ ~lock)

\* A call that ended in a panic after one worker failed and another rendered.
C5_Witness ==
    /\ fn \in Schedulers
    /\ pc = "panicked"
    /\ \E w \in BagToSet(workers) : w.st = "panicked"
    /\ \E w \in BagToSet(workers) : w.st = "done"

\* C6: a scheduler call with zero width, zero height or zero thread count
\* never returns normally.
C6_ZeroRejected ==
    (fn \in Schedulers /\ (bounds[1] = 0 \/ bounds[2] = 0 \/ threads = 0))
        => pc # "returned"

\* C7: a call of render, bands or task_queue on a buffer whose length is not
\* width * height never returns normally.
C7_MismatchAborts ==
    (fn \in Schedulers \cup {"render"} /\ Len(pixels) # bounds[1] * bounds[2])
        => pc # "returned"

\* C8: a scheduler call one of whose workers has failed does not return
\* normally.
C8_FailurePropagates ==
    (fn \in Schedulers /\ \E w \in BagToSet(workers) : Panicked(w))
        => pc # "returned"

\* task_queue has panicked on the failure of a worker.
C8_Witness ==
    /\ fn = "task_queue"
    /\ pc = "panicked"
    /\ panic = "called Result::unwrap() on an Err value"
    /\ \E w \in BagToSet(workers) : Panicked(w)

\* C9: on a valid input neither scheduler panics, no worker fails on the band
\* it was handed, and the call can always take a step until it has returned.
C9_NoError ==
    (fn \in Schedulers /\ ValidInput) =>
        /\ pc # "panicked"
        /\ \A w \in BagToSet(workers) : ~Panicked(w)
        /\ pc # "returned" => ENABLED Next

\* bands has returned and its trailing band was shorter than row_per_band rows.
C9_Witness ==
    /\ fn = "bands"
    /\ ValidInput
    /\ pc = "returned"
    /\ NumBands >= 2
    /\ Task(NumBands - 1).band_bounds[2] < row_per_band(bounds, threads)
    /\ rendered[NumBands - 1] = 1

\* The corners of pixel_to_point called alone are n/4: the n of a coordinate.
QuarterOf(x) == CHOOSE n \in -8..8 : Dyadic(n, 2) = x

\* 4 * bounds.0 times the real number UL.re + x * (LR.re - UL.re) / bounds.0
ExactRe4W ==
    QuarterOf(Re(upper_left)) * bounds[1]
      + pixel[1] * (QuarterOf(Re(lower_right)) - QuarterOf(Re(upper_left)))

\* 4 * bounds.1 times the real number UL.im - y * (UL.im - LR.im) / bounds.1
ExactIm4H ==
    QuarterOf(Im(upper_left)) * bounds[2]
      - pixel[2] * (QuarterOf(Im(upper_left)) - QuarterOf(Im(lower_right)))

\* C10: pixel_to_point interpolates linearly.  Pixel (0, 0) maps to
\* upper_left exactly; wherever the real numbers
\* UL.re + x * (LR.re - UL.re) / width and UL.im - y * (UL.im - LR.im) / height
\* are multiples of 1/32 the result is exactly these numbers; with
\* UL.im >= LR.im the next row never has a larger imaginary part; and bounds
\* (100, 200), pixel (25, 175), UL = -1+1i, LR = 1-1i give -0.5-0.75i.
C10_Linear ==
    (fn = "pixel_to_point" /\ pc = "returned") =>
        /\ pixel = <<0, 0>> => point = upper_left
        /\ (8 * ExactRe4W) % bounds[1] = 0
              => Re(point) = Dyadic((8 * ExactRe4W) \div bounds[1], 5)
        /\ (8 * ExactIm4H) % bounds[2] = 0
              => Im(point) = Dyadic((8 * ExactIm4H) \div bounds[2], 5)
        /\ (pixel[2] >= 1 /\ FLeq(Im(lower_right), Im(upper_left)))
              => FLeq(Im(point),
                      Im(pixel_to_point(bounds, <<pixel[1], pixel[2] - 1>>,
                                        upper_left, lower_right)))
        /\ (/\ bounds = <<100, 200>>
            /\ pixel = <<25, 175>>
            /\ upper_left = Complex(Dyadic(-1, 0), Dyadic(1, 0))
            /\ lower_right = Complex(Dyadic(1, 0), Dyadic(-1, 0)))
              => point = Complex(Dyadic(-1, 1), Dyadic(-3, 2))

\* The call of test_pixel_to_point has returned -0.5-0.75i.
C10_Witness ==
    /\ fn = "pixel_to_point"
    /\ pc = "returned"
    /\ bounds = <<100, 200>>
    /\ pixel = <<25, 175>>
    /\ point = Complex(Dyadic(-1, 1), Dyadic(-3, 2))

(***************************************************************************)
(* escape_time called alone.                                               *)
(***************************************************************************)
EscapeReturned == fn = "escape_time" /\ pc = "returned"

\* C11: escape_time(0+0i, limit) returns None for every limit >= 1.
C11_OriginNeverEscapes ==
    (EscapeReturned /\ c = Complex(Zero, Zero) /\ limit >= 1) => count = None

\* escape_time(0+0i, 255) has returned None.
C11_Witness ==
    /\ EscapeReturned
    /\ c = Complex(Zero, Zero)
    /\ limit = Limit
    /\ count = None

\* The first n values of the orbit z <- z * z + c that starts at z, as a
\* sequence: z, z * z + c, ...
RECURSIVE OrbitSeq(_, _, _)
OrbitSeq(z, cc, n) ==
    IF n <= 0 THEN <<>>
    ELSE IF n = 1 THEN <<z>>
    ELSE CHOOSE r \in
           { a \o OrbitSeq(CAdd(CMul(a[Len(a)], a[Len(a)]), cc), cc, n - n \div 2) :
               a \in {OrbitSeq(z, cc, n \div 2)} } : TRUE

Escaped(z) == GreaterThan4(norm_sqr(z))

\* C16: the orbit starts at z = 0 and its i-th value is the one tested at
\* index i, the indices being 1..limit-1.  escape_time returns Some(i) for
\* the least such i whose value has |z|^2 > 4, and None exactly when no value
\* tested at an index in 1..limit-1 has |z|^2 > 4.
C16_LeastEscapeIndex ==
    EscapeReturned =>
        /\ count # None =>
              /\ count \in 1..limit - 1
              /\ \A orbit \in {OrbitSeq(Complex(Zero, Zero), c, count)} :
                    /\ Escaped(orbit[count])
                    /\ \A i \in 1..count - 1 : ~Escaped(orbit[i])
        /\ count = None =>
              \A orbit \in {OrbitSeq(Complex(Zero, Zero), c, limit - 1)} :
                  \A i \in 1..limit - 1 : ~Escaped(orbit[i])

\* escape_time has returned an index above 2 with a limit that leaves room
\* for later ones.
C16_Witness ==
    /\ EscapeReturned
    /\ count > 2
    /\ count < limit - 1
    /\ limit <= MaxLimit

\* |x| for a finite x
FAbs(x) == <<x[1], Abs(x[2]), x[3]>>

\* c lies on the real axis and |c| > 2.
RealOutside2 ==
    /\ Im(c) = Zero
    /\ Sign(FSub(FAbs(Re(c)), Dyadic(2, 0))) > 0

\* C12 as stated: for every real c with |c| > 2 and every limit >= 1,
\* escape_time returns an escape, at the second index of the loop (z = 0 is
\* tested at the first index, 1, and z = c at the second, 2).
C12_EscapesForEveryLimit ==
    (EscapeReturned /\ RealOutside2 /\ limit >= 1) => count = 2

\* C12 amended: for every real c with |c| > 2 and every limit >= 3,
\* escape_time returns Some(2); the limit render passes is such a limit.
C12_EscapesFromLimit3 ==
    /\ Limit >= 3
    /\ (EscapeReturned /\ RealOutside2 /\ limit >= 3) => count = 2

\* escape_time(2 + 1/64, 3) has returned Some(2).
C12_Witness ==
    /\ EscapeReturned
    /\ c = Complex(Dyadic(129, 6), Zero)
    /\ limit = 3
    /\ count = 2

(***************************************************************************)
(* The lock and the slices.                                                *)
(***************************************************************************)
\* The number of workers at st.
NumAt(st) ==
    BagCardinality([w \in { x \in BagToSet(workers) : x.st = st } |->
                       CopiesIn(w, workers)])

\* C13: in task_queue the guard is held exactly while one worker is inside
\* the pull: at most one worker is there, a worker that is rendering (or at
\* any other place) holds no guard, and while nobody is inside the pull a
\* worker that wants to pull can take the guard, whoever is rendering.
C13_LockOnlyAcrossPull ==
    fn = "task_queue" =>
        /\ NumAt("locked") = (IF lock THEN 1 ELSE 0)
        /\ \A w \in BagToSet(workers) :
              (w.st = "ready" /\ NumAt("locked") = 0) => ENABLED worker_lock(w)

\* One worker is inside the pull while another is rendering.
C13_Witness ==
    /\ fn = "task_queue"
    /\ lock
    /\ NumAt("locked") = 1
    /\ NumAt("render") >= 1

\* The number of workers that hold, for rendering, a slice with index j in it.
Holders(j) ==
    BagCardinality(
        [w \in { x \in BagToSet(workers) :
                    /\ x.st = "render"
                    /\ x.task.off < j
                    /\ j <= x.task.off + x.task.len } |-> CopiesIn(w, workers)])

SlicesDisjoint == \A j \in 1..Len(pixels) : Holders(j) <= 1

\* A step stores only to indices render stores to in the slice of a worker
\* that held it for rendering and has now left its render.
WritesInsideBand ==
    /\ Len(pixels') = Len(pixels)
    /\ \A j \in 1..Len(pixels) :
          pixels'[j] # pixels[j] =>
              \E w \in BagToSet(workers) :
                  /\ w.st = "render"
                  /\ j \in render_writes(w.task.off, w.task.band_bounds)
                  /\ j \in w.task.off + 1 .. w.task.off + w.task.len
                  /\ CopiesIn(w, workers') = CopiesIn(w, workers) - 1

\* Index j was stored to once: by one completed render of one band.
WrittenOnce(j) ==
    /\ \A i \in 0..NumBands - 1 : rendered[i] <= 1
    /\ Cardinality({ i \in 0..NumBands - 1 :
                       /\ rendered[i] = 1
                       /\ j \in render_writes(Task(i).off, Task(i).band_bounds) }) = 1

SchedulerStep ==
    fn \in Schedulers =>
        /\ SlicesDisjoint'
        /\ WritesInsideBand
        /\ pc' = "returned" => \A j \in 1..Len(pixels) : WrittenOnce(j)'

\* C14: in bands and in task_queue, after every step the slices the workers
\* hold for rendering are pairwise disjoint, the step has stored only inside
\* the band of the worker that took it, and when the call has returned every
\* index of the buffer has been stored to exactly once.
C14_DisjointSlices == [][SchedulerStep]_vars

\* Two workers of bands hold a slice each, both rendering.
C14_Witness ==
    /\ fn = "bands"
    /\ ValidInput
    /\ NumAt("render") >= 2
    /\ SlicesDisjoint

(***************************************************************************)
(* The bytes of render.                                                    *)
(***************************************************************************)
\* escape_time of the point of pixel (column, row), with render's limit.
CountAt(column, row) ==
    escape_time(pixel_to_point(bounds, <<column, row>>, upper_left, lower_right),
                Limit)

\* C15: when render has returned, the buffer holds bounds.0 * bounds.1 bytes,
\* and for every column and row the byte at row * bounds.0 + column is 0 if
\* escape_time of the pixel's point returned None and 255 - count if it
\* returned Some(count); these indices are all the indices of the buffer.
C15_RenderStores ==
    (fn = "render" /\ pc = "returned") =>
        /\ Len(pixels) = bounds[1] * bounds[2]
        /\ \A column \in 0..bounds[1] - 1, row \in 0..bounds[2] - 1 :
              pixels[row * bounds[1] + column + 1] =
                  (IF CountAt(column, row) = None THEN 0
                   ELSE 255 - CountAt(column, row))
        /\ { row * bounds[1] + column + 1 :
                column \in 0..bounds[1] - 1, row \in 0..bounds[2] - 1 }
              = 1..Len(pixels)

\* render has returned on a buffer of at least two columns and two rows, and
\* left a point that escaped, a point that did not, and two different bytes
\* in one row.
C15_Witness ==
    /\ fn = "render"
    /\ pc = "returned"
    /\ bounds[1] >= 2
    /\ bounds[2] >= 2
    /\ \E j \in 1..Len(pixels) : pixels[j] = 0
    /\ \E j \in 1..Len(pixels) : pixels[j] # 0
    /\ \E row \in 0..bounds[2] - 1 :
          pixels[row * bounds[1] + 1] # pixels[row * bounds[1] + 2]

(***************************************************************************)
(* The bands.                                                              *)
(***************************************************************************)
\* The workers that have been given a band.
WithBand == { w \in BagToSet(workers) : w.task # NoTask }

\* C17: every band a worker has been given, of index i, is the i-th chunk of
\* the buffer; its slice starts at row row_per_band * i of the image, its
\* height is the length of the slice divided by the width, and its corners
\* are the points of the pixels (0, top) and (width, top + height) of the
\* whole image, top being the row where the slice starts.  In task_queue the
\* bands handed out so far are those of index 0 .. pulls - 1, once each.
C17_BandGeometry ==
    fn \in Schedulers =>
        /\ \A w \in WithBand :
              LET t == w.task
                  top == t.off \div bounds[1]
                  height == t.len \div bounds[1]
              IN /\ t.i \in 0..cursor - 1
                 /\ t.off = t.i * row_per_band(bounds, threads) * bounds[1]
                 /\ top = row_per_band(bounds, threads) * t.i
                 /\ t.len > 0
                 /\ t.off + t.len <= Len(pixels)
                 /\ t.band_bounds = <<bounds[1], height>>
                 /\ t.band_upper_left =
                       pixel_to_point(bounds, <<0, top>>, upper_left, lower_right)
                 /\ t.band_lower_right =
                       pixel_to_point(bounds, <<bounds[1], top + height>>,
                                      upper_left, lower_right)
        /\ \A i \in DOMAIN handed : handed[i] = (IF i < cursor THEN 1 ELSE 0)

\* A worker of task_queue renders the second band, pulled second.
C17_Witness ==
    /\ fn = "task_queue"
    /\ cursor = 2
    /\ \E w \in WithBand : w.st = "render" /\ w.task.i = 1 /\ w.task.off > 0

\* ceil(height / (height / threads + 1)), the divisions being integer divisions
CeilBands ==
    (bounds[2] + (bounds[2] \div threads + 1) - 1) \div (bounds[2] \div threads + 1)

BandCountStep ==
    (fn \in Schedulers /\ ValidInput) =>
        /\ NumBands' = CeilBands
        /\ 1 <= NumBands' /\ NumBands' <= threads
        /\ fn = "bands" => Spawned' <= threads
        /\ (fn = "task_queue" /\ NumAt("done")' > NumAt("done")) =>
              /\ cursor = NumBands
              /\ NumAt("locked")' = NumAt("locked") - 1
              /\ NumAt("render")' = NumAt("render")
              /\ UNCHANGED <<cursor, handed, rendered, pixels>>

\* C18: on a valid input the number of bands is
\* ceil(height / (height / threads + 1)), at least 1 and at most threads;
\* bands never has more than `threads` workers; and in task_queue a worker
\* exits only from the pull, with the cursor exhausted, and the step in which
\* it exits hands out no band, renders nothing and leaves the buffer alone.
C18_BandCount == [][BandCountStep]_vars

\* bands has returned with as many bands as threads, more than one.
C18_Witness ==
    /\ fn = "bands"
    /\ ValidInput
    /\ pc = "returned"
    /\ threads >= 2
    /\ NumBands = threads
    /\ Spawned = threads

\* C19: when render has returned, for every pixel the count escape_time
\* returned with the limit 255 is None or lies in 1..254, `count as u8` is
\* the count itself, the byte of an escaped pixel is 255 - count and lies in
\* 1..254, and the byte is 0 exactly for the pixels that did not escape.
C19_NoTruncation ==
    (fn = "render" /\ pc = "returned") =>
        \A column \in 0..bounds[1] - 1, row \in 0..bounds[2] - 1 :
            \A cnt \in {CountAt(column, row)} :
                /\ cnt = None \/ cnt \in 1..254
                /\ cnt % ByteMod = cnt
                /\ cnt # None =>
                      /\ pixels[row * bounds[1] + column + 1] = MaxByte - cnt
                      /\ pixels[row * bounds[1] + column + 1] \in 1..254
                /\ pixels[row * bounds[1] + column + 1] = 0 <=> cnt = None

\* render has returned with an escaped pixel and one that did not escape.
C19_Witness ==
    /\ fn = "render"
    /\ pc = "returned"
    /\ \E column \in 0..bounds[1] - 1, row \in 0..bounds[2] - 1 :
          /\ CountAt(column, row) = None
          /\ pixels[row * bounds[1] + column + 1] = 0
    /\ \E column \in 0..bounds[1] - 1, row \in 0..bounds[2] - 1 :
          /\ CountAt(column, row) # None
          /\ pixels[row * bounds[1] + column + 1] = MaxByte - CountAt(column, row)

=============================================================================
